---- MODULE Spec2Model ----
(***************************************************************************)
(* Model of the ArtworkTable component (src/src/ArtworkTable.tsx, the      *)
(* identifier-set variant of lines 542-840) and of the checkbox handler of *)
(* the custom-table variant (src/unnamed/part_000).                        *)
(*                                                                         *)
(* The remote collection is a sequence of items with distinct identifiers; *)
(* the server returns it page by page, API_PAGE_SIZE items a page.         *)
(***************************************************************************)
EXTENDS Integers, Sequences, FiniteSets, Bags, TLC

VARIABLES
    remote,             \* size of the remote collection (the server's state)
    remoteChanges,      \* how often the remote collection has changed
    artworks,           \* useState artworks: identifiers of the loaded page, in order
    loading,            \* useState loading
    totalRecords,       \* useState totalRecords
    first,              \* useState first (row offset)
    selectedIds,        \* useState selectedIds: Set<number>
    tempRows,           \* useState tempRows: <<>> is null, <<k>> the number k
    bulkSelectLoading,  \* useState bulkSelectLoading
    nav,                \* bag of page numbers of the navigation fetches in flight
    ops,                \* the applyRowsPerPageAndSelect calls in flight (their locals)
    orphans,            \* fetches still in flight whose call has already ended
    bulkSeq,            \* number of applyRowsPerPageAndSelect calls started so far
    steps,              \* number of user interactions and remote changes so far
    lastOp,             \* history: name of the last operation
    prevSel,            \* history: selectedIds before the last operation
    done,               \* history: the last finished applyRowsPerPageAndSelect call
    donePrev,           \* history: the finished call before that
    selectedArtworks,   \* part_000: useState selectedArtworks (array, identifiers)
    tg                  \* history of the checkbox handlers: the last two
                        \* handleCheckboxChange calls of part_000, the last
                        \* onDataTableSelectionChange call

vars == <<remote, remoteChanges, artworks, loading, totalRecords, first,
          selectedIds, tempRows, bulkSelectLoading, nav, ops, orphans, bulkSeq,
          steps, lastOp, prevSel, done, donePrev, selectedArtworks, tg>>

mainVars == <<remote, remoteChanges, artworks, loading, totalRecords, first,
              selectedIds, tempRows, bulkSelectLoading, nav, ops, orphans,
              bulkSeq, steps, lastOp, prevSel, done, donePrev>>

p0Vars == <<selectedArtworks, tg>>

----------------------------------------------------------------------------
(* Bounds of the model.                                                    *)

\* largest size of the remote collection
MaxTotal == 38
\* largest number a user types into the rows-to-select input
MaxTyped == 39
\* user interactions (clicks, typed numbers) and changes of the remote
\* collection in one run
MaxSteps == 4

\* rows of the table whose checkbox is clicked in the custom-table variant
MaxRows == 3

\* size of a remote collection larger than the input's upper limit
LargeTotal == 1002

----------------------------------------------------------------------------
(* Program constants.                                                      *)

API_PAGE_SIZE == 12
CONCURRENT_REQUESTS == 3
INPUT_MAX == 1000

----------------------------------------------------------------------------
(* Arithmetic and sequence helpers.                                        *)

Min(a, b) == IF a < b THEN a ELSE b

\* Math.ceil(a / b) for a >= 0, b > 0
CeilDiv(a, b) == (a + b - 1) \div b

\* the set of elements of a sequence
Range(s) == {s[k] : k \in 1..Len(s)}

\* the first k elements of a sequence
Take(s, k) == SubSeq(s, 1, Min(k, Len(s)))

----------------------------------------------------------------------------
(* The remote collection and the page fetcher                              *)
(* (https://api.artic.edu/api/v1/artworks?page=p).                         *)

\* identifier of the item at a 1-based position of the collection; the
\* identifiers are distinct (for positions below 1103, a prime) and not in
\* position order
IdAt(pos) == 100 + ((pos * 400) % 1103)

\* sizes the remote collection takes
RemoteSizes == {0, 5, MaxTotal}

\* sizes of a collection below and above the largest number the input accepts
CapSizes == {5, LargeTotal}

\* data.data of page p of a collection of n items
PageData(p, n) ==
    LET from == (p - 1) * API_PAGE_SIZE
        cnt  == IF n - from > API_PAGE_SIZE THEN API_PAGE_SIZE
                ELSE IF n - from < 0 THEN 0 ELSE n - from
    IN  [k \in 1..cnt |-> IdAt(from + k)]

\* a parsed response body: wellFormed is FALSE when the body has no data array
Response(p, n) == [wellFormed |-> TRUE, data |-> PageData(p, n), total |-> n]
Malformed == [wellFormed |-> FALSE, data |-> <<>>, total |-> 0]

----------------------------------------------------------------------------
(* Navigation.                                                             *)

\* apiPage without the + 1, as the 0-based page index of a paginator
ApiPageZeroBased(f) == f \div API_PAGE_SIZE

\* apiPage of the useEffect: Math.floor(first / API_PAGE_SIZE) + 1
ApiPage(f) == (f \div API_PAGE_SIZE) + 1

\* Math.ceil(totalRecords / API_PAGE_SIZE)
PageCount(tr) == CeilDiv(tr, API_PAGE_SIZE)

\* the offsets the Paginator offers for totalRecords = tr: one per page, and
\* the first page also when there is none
Offsets(tr) ==
    {i * API_PAGE_SIZE : i \in 0..(IF PageCount(tr) = 0 THEN 0 ELSE PageCount(tr) - 1)}

\* setFirst(f) and the useEffect on [first]: a fetch of the page of f is
\* issued, and loading set, when the value of first changes
NavAfterSetFirst(f) == IF f = first THEN nav ELSE nav (+) SetToBag({ApiPage(f)})
LoadingAfterSetFirst(f) == IF f = first THEN loading ELSE TRUE

\* identifiers of the loaded page: new Set(artworks.map(item => item.id))
CurrentPageIds == Range(artworks)

\* the DataTable's selection prop being every row of the loaded page
SelectedArtworksUnfiltered(rows, sel) == rows

\* the DataTable's selection prop, selectedArtworks of the identifier-set
\* component: artworks.filter(artwork => selectedIds.has(artwork.id))
SelectedArtworksOnPage(rows, sel) == SelectSeq(rows, LAMBDA id : id \in sel)

\* rowClassName of the DataTable, for a row with identifier id
RowClassName(id, sel) == IF id \in sel THEN "p-highlight" ELSE ""

----------------------------------------------------------------------------
(* Bulk selection: the pure steps of applyRowsPerPageAndSelect.            *)

\* totalToSelect = tempRows || 0
TotalToSelect(t) == IF t = <<>> THEN 0 ELSE t[1]

\* the InputNumber without its max
TempRowsAfterNoMax(v, tr) == IF v <= 0 THEN <<>> ELSE <<v>>

\* what the InputNumber (min 0, max Math.min(totalRecords, 1000)) hands to
\* setTempRows(e.value || null) when the user types v
TempRowsAfter(v, tr) ==
    LET c == Min(v, Min(tr, INPUT_MAX))
    IN  IF c <= 0 THEN <<>> ELSE <<c>>

\* the numbers a user types: those at the end of a batch of pages, at the end
\* of the first page of a batch, and one more than each
TypedValues ==
    {v \in 0..MaxTyped :
        v % (API_PAGE_SIZE * CONCURRENT_REQUESTS) \in {0, 1, API_PAGE_SIZE, API_PAGE_SIZE + 1}}

\* numbers typed around the input's upper limit, the limit itself left out
CapTypedValues == {API_PAGE_SIZE, INPUT_MAX - 1, INPUT_MAX + 1}

\* pagesToFetch of a loop that always fetches the first page
PagesToFetchAtLeastOne(k, tr) ==
    IF Min(CeilDiv(k, API_PAGE_SIZE), CeilDiv(tr, API_PAGE_SIZE)) < 1 THEN 1
    ELSE Min(CeilDiv(k, API_PAGE_SIZE), CeilDiv(tr, API_PAGE_SIZE))

\* pagesToFetch without the Math.min: maxPages alone
PagesToFetchNoMin(k, tr) == CeilDiv(k, API_PAGE_SIZE)

\* pagesToFetch = Math.min(maxPages, Math.ceil(totalRecords / API_PAGE_SIZE))
PagesToFetch(k, tr) == Min(CeilDiv(k, API_PAGE_SIZE), CeilDiv(tr, API_PAGE_SIZE))

\* the slice with its end one too far
BatchOneMore(i, pagesToFetch) ==
    {p \in 1..pagesToFetch : i < p /\ p <= i + CONCURRENT_REQUESTS + 1}

\* pageNumbers.slice(i, i + CONCURRENT_REQUESTS), pageNumbers = [1..pagesToFetch]
Batch(i, pagesToFetch) ==
    {p \in 1..pagesToFetch : i < p /\ p <= i + CONCURRENT_REQUESTS}

\* batch.map(pageNum => fetch(...)): the pages requested for the slice at i,
\* in the order of the requests
BatchPages(i, pagesToFetch) ==
    [j \in 1..Cardinality(Batch(i, pagesToFetch)) |-> i + j]

\* the inner loop with its break testing the page's own item count, not the
\* running selectedCount
ProcessPageNoCount(data, sel, count, k) ==
    LET taken == Take(data, k)
    IN  [sel |-> sel \cup Range(taken), count |-> count + Len(taken)]

\* the inner loop taking the trailing items of the page, not the leading ones
ProcessPageTrailing(data, sel, count, k) ==
    LET n == Min(k - count, Len(data))
        taken == SubSeq(data, Len(data) - n + 1, Len(data))
    IN  [sel |-> sel \cup Range(taken), count |-> count + Len(taken)]

\* the inner loop with newSelectedIds created anew for every page
ProcessPageReplacing(data, sel, count, k) ==
    LET taken == Take(data, k - count)
    IN  [sel |-> Range(taken), count |-> count + Len(taken)]

\* the inner loop over data.data: items are added while selectedCount is
\* below totalToSelect
ProcessPage(data, sel, count, k) ==
    LET taken == Take(data, k - count)
    IN  [sel |-> sel \cup Range(taken), count |-> count + Len(taken)]

\* the loop over batchResults, in the order of the batch (ascending page
\* number); threw is TRUE when a body without a data array is iterated
RECURSIVE ProcessBatch(_, _, _, _, _)
ProcessBatch(pages, results, sel, count, k) ==
    IF pages = {} \/ count >= k
    THEN [threw |-> FALSE, sel |-> sel, count |-> count]
    ELSE LET p == CHOOSE q \in pages : \A r \in pages : q <= r
             body == results[p]
         IN  IF ~body.wellFormed
             THEN [threw |-> TRUE, sel |-> sel, count |-> count]
             ELSE LET step == ProcessPage(body.data, sel, count, k)
                  IN  ProcessBatch(pages \ {p}, results, step.sel, step.count, k)

\* the loop running until the count is reached, whatever pages are left
MoreBatchesUntilCount(i, pagesToFetch, count, k) == ~(count >= k)

\* the for loop's test before another batch: i < pageNumbers.length and not
\* selectedCount >= totalToSelect
MoreBatches(i, pagesToFetch, count, k) == i < pagesToFetch /\ ~(count >= k)

\* the button disabled by loading alone, as in the array variants
CanApplyLoadingOnly == ~loading

\* the Apply Bulk Selection button is enabled: not (bulkSelectLoading || loading)
CanApply == ~(bulkSelectLoading \/ loading)

----------------------------------------------------------------------------
(* History records.                                                        *)

\* what the caller and the user get to see of a call that has ended, the
\* selection apart: the state of the promise the call returned and the
\* Apply button's busy flag
Seen(promise, busy) == [promise |-> promise, busy |-> busy]

NoBulk == [outcome |-> "none", seq |-> 0, k |-> 0, tr |-> 0, n |-> 0, rc |-> 0,
           stable |-> TRUE, touched |-> FALSE, before |-> {}, after |-> {},
           i |-> 0, collected |-> {}, seen |-> Seen("none", FALSE),
           order |-> <<>>, issued |-> <<>>, view |-> <<>>]

\* the history record of a call that ends with the given outcome
Finished(o, outcome, after) ==
    [outcome |-> outcome, seq |-> o.seq, k |-> o.totalToSelect, tr |-> o.tr,
     n |-> o.n, rc |-> o.rc, stable |-> o.stable, touched |-> o.touched,
     before |-> o.before, after |-> after, i |-> o.i,
     collected |-> o.newSelectedIds, seen |-> Seen("none", FALSE),
     order |-> o.order, issued |-> o.issued, view |-> o.view]

\* a manual selection operation marks every call in flight as raced
Touch(os) == {[o EXCEPT !.touched = TRUE] : o \in os}

\* a change of the remote collection marks every call in flight as unstable
Unsettle(os) == {[o EXCEPT !.stable = FALSE] : o \in os}

----------------------------------------------------------------------------
(* Initial state: the component is mounted and the useEffect has issued    *)
(* the fetch of page 1.                                                    *)

Mounted(sizes) ==
    /\ remote \in sizes
    /\ remoteChanges = 0
    /\ artworks = <<>>
    /\ loading = TRUE
    /\ totalRecords = 0
    /\ first = 0
    /\ selectedIds = {}
    /\ tempRows = <<>>
    /\ bulkSelectLoading = FALSE
    /\ nav = SetToBag({ApiPage(0)})
    /\ ops = {}
    /\ orphans = {}
    /\ bulkSeq = 0
    /\ steps = 0
    /\ lastOp = "init"
    /\ prevSel = {}
    /\ done = NoBulk
    /\ donePrev = NoBulk
    /\ selectedArtworks = <<>>
    /\ tg = <<>>

Init == Mounted(RemoteSizes)

----------------------------------------------------------------------------
(* The environment: the remote collection changes size.                    *)

RemoteChange ==
    /\ steps < MaxSteps
    /\ steps' = steps + 1
    /\ \E n \in RemoteSizes \ {remote} : remote' = n
    /\ remoteChanges' = remoteChanges + 1
    /\ ops' = Unsettle(ops)
    /\ lastOp' = "remoteChange"
    /\ prevSel' = selectedIds
    /\ UNCHANGED <<selectedArtworks, tg, artworks, loading, totalRecords,
                   first, selectedIds, tempRows, bulkSelectLoading, nav,
                   orphans, bulkSeq, done, donePrev>>

\* the remote collection loses all its items, once
RemoteVanishes ==
    /\ remote > 0
    /\ remote' = 0
    /\ remoteChanges' = remoteChanges + 1
    /\ ops' = Unsettle(ops)
    /\ lastOp' = "remoteChange"
    /\ prevSel' = selectedIds
    /\ UNCHANGED <<selectedArtworks, tg, artworks, loading, totalRecords,
                   first, selectedIds, tempRows, bulkSelectLoading, nav,
                   orphans, bulkSeq, steps, done, donePrev>>

----------------------------------------------------------------------------
(* Navigation: onPageChange, and fetchData's two ends.                     *)

OnPageChange ==
    /\ \E f \in Offsets(totalRecords) :
        /\ first' = f
        /\ nav' = NavAfterSetFirst(f)
        /\ loading' = LoadingAfterSetFirst(f)
    /\ steps < MaxSteps
    /\ steps' = steps + 1
    /\ lastOp' = "pageChange"
    /\ prevSel' = selectedIds
    /\ UNCHANGED <<selectedArtworks, tg, remote, remoteChanges, artworks,
                   totalRecords, selectedIds, tempRows, bulkSelectLoading,
                   ops, orphans, bulkSeq, done, donePrev>>

\* fetchData keeping only the selected identifiers of the page it loaded
FetchDataOkPageBound ==
    /\ \E p \in BagToSet(nav) :
        /\ nav' = nav (-) SetToBag({p})
        /\ artworks' = Response(p, remote).data
        /\ totalRecords' = Response(p, remote).total
    /\ selectedIds' = selectedIds \cap Range(artworks')
    /\ loading' = FALSE
    /\ lastOp' = "navOk"
    /\ prevSel' = selectedIds
    /\ UNCHANGED <<selectedArtworks, tg, remote, remoteChanges, first, tempRows,
                   bulkSelectLoading, ops, orphans, bulkSeq, steps, done,
                   donePrev>>

\* the fetch of page p ends well: setArtworks, setTotalRecords,
\* setLoading(false)
FetchDataOk ==
    /\ \E p \in BagToSet(nav) :
        /\ nav' = nav (-) SetToBag({p})
        /\ artworks' = Response(p, remote).data
        /\ totalRecords' = Response(p, remote).total
    /\ loading' = FALSE
    /\ lastOp' = "navOk"
    /\ prevSel' = selectedIds
    /\ UNCHANGED <<selectedArtworks, tg, remote, remoteChanges, first,
                   selectedIds, tempRows, bulkSelectLoading, ops, orphans,
                   bulkSeq, steps, done, donePrev>>

\* the fetch of page p fails (rejected, or a body that does not parse or has
\* no data array): catch logs, finally setLoading(false)
FetchDataFail ==
    /\ \E p \in BagToSet(nav) : nav' = nav (-) SetToBag({p})
    /\ loading' = FALSE
    /\ lastOp' = "navFail"
    /\ prevSel' = selectedIds
    /\ UNCHANGED <<selectedArtworks, tg, remote, remoteChanges, artworks,
                   totalRecords, first, selectedIds, tempRows,
                   bulkSelectLoading, ops, orphans, bulkSeq, steps, done,
                   donePrev>>

\* the fetch of page p brings a body with a data array but no pagination:
\* setArtworks(mappedData) runs, then data.pagination.total throws; catch
\* logs, finally setLoading(false)
FetchDataNoPagination ==
    /\ \E p \in BagToSet(nav) :
        /\ nav' = nav (-) SetToBag({p})
        /\ artworks' = Response(p, remote).data
    /\ loading' = FALSE
    /\ lastOp' = "navFail"
    /\ prevSel' = selectedIds
    /\ UNCHANGED <<selectedArtworks, tg, remote, remoteChanges, totalRecords,
                   first, selectedIds, tempRows, bulkSelectLoading, ops,
                   orphans, bulkSeq, steps, done, donePrev>>

----------------------------------------------------------------------------
(* Manual selection.                                                       *)

\* the rows whose checkbox the user clicks: the first and the last of the page
ClickedRows == {r \in 1..Len(artworks) : r = 1 \/ r = Len(artworks)}

\* the row sets the DataTable hands to onSelectionChange: the rows of the
\* loaded page now selected with one row's checkbox flipped, all rows of the
\* page (header checkbox on), or none (header checkbox off)
SelectionValues ==
    LET shown == CurrentPageIds \cap selectedIds
    IN  {CurrentPageIds, {}}
        \cup {shown \ {artworks[r]} : r \in ClickedRows}
        \cup {shown \cup {artworks[r]} : r \in ClickedRows}

\* onDataTableSelectionChange adding e.value and removing nothing
SelectionChangedAdditive(sel, pageIds, value) == sel \cup value

\* onDataTableSelectionChange: the selection without the loaded page's
\* identifiers, plus the identifiers of e.value
SelectionChanged(sel, pageIds, value) == (sel \ pageIds) \cup value

\* selectAllCurrentPage replacing the selection by the loaded page
SelectedOnlyPage(sel, pageIds) == pageIds

\* selectAllCurrentPage: new Set([...selectedIds, ...currentPageIds])
SelectedAll(sel, pageIds) == sel \cup pageIds

\* deselectAllCurrentPage emptying the selection
DeselectedEverything(sel, pageIds) == {}

\* deselectAllCurrentPage: selectedIds filtered by !currentPageIds.has(id)
DeselectedAll(sel, pageIds) == sel \ pageIds

\* the manual handlers switched off while a bulk selection runs
ManualUnlessBusy(name, sel) ==
    /\ ~bulkSelectLoading
    /\ steps < MaxSteps
    /\ steps' = steps + 1
    /\ selectedIds' = sel
    /\ ops' = Touch(ops)
    /\ lastOp' = name
    /\ prevSel' = selectedIds
    /\ UNCHANGED <<selectedArtworks, tg, remote, remoteChanges, artworks,
                   loading, totalRecords, first, tempRows, bulkSelectLoading,
                   nav, orphans, bulkSeq, done, donePrev>>

\* setSelectedIds(sel) by the manual handler called name
ManualStep(name, sel) ==
    /\ steps < MaxSteps
    /\ steps' = steps + 1
    /\ selectedIds' = sel
    /\ ops' = Touch(ops)
    /\ lastOp' = name
    /\ prevSel' = selectedIds
    /\ UNCHANGED <<remote, remoteChanges, artworks, loading, totalRecords,
                   first, tempRows, bulkSelectLoading, nav, orphans, bulkSeq,
                   done, donePrev>>

Manual(name, sel) == ManualStep(name, sel) /\ UNCHANGED <<selectedArtworks, tg>>

OnDataTableSelectionChange ==
    \E value \in SelectionValues :
        Manual("selectionChange", SelectionChanged(selectedIds, CurrentPageIds, value))

SelectAllCurrentPage ==
    Manual("selectPage", SelectedAll(selectedIds, CurrentPageIds))

DeselectAllCurrentPage ==
    Manual("deselectPage", DeselectedAll(selectedIds, CurrentPageIds))

\* the Clear All Selections button, rendered when selectedIds.size > 0
ClearAllSelections ==
    /\ Cardinality(selectedIds) > 0
    /\ Manual("clearAll", {})

----------------------------------------------------------------------------
(* The rows-to-select input.                                               *)

\* onValueChange of the InputNumber, for a number typed out of values
OnValueChange(values) ==
    /\ \E v \in values : tempRows' = TempRowsAfter(v, totalRecords)
    /\ tempRows' # tempRows
    /\ steps < MaxSteps
    /\ steps' = steps + 1
    /\ lastOp' = "setTempRows"
    /\ prevSel' = selectedIds
    /\ UNCHANGED <<selectedArtworks, tg, remote, remoteChanges, artworks,
                   loading, totalRecords, first, selectedIds,
                   bulkSelectLoading, nav, ops, orphans, bulkSeq, done,
                   donePrev>>

SetTempRows == OnValueChange(TypedValues)

\* a number around the input's upper limit is typed
SetTempRowsNearCap == OnValueChange(CapTypedValues)

----------------------------------------------------------------------------
(* Bulk selection: applyRowsPerPageAndSelect.                              *)

\* a call whose selectedCount starts at the size of the current selection
NewCallCounting(k) ==
    LET pages == PagesToFetch(k, totalRecords)
    IN  [seq |-> bulkSeq + 1, totalToSelect |-> k, pagesToFetch |-> pages,
         i |-> 0, pending |-> Batch(0, pages), results |-> <<>>,
         newSelectedIds |-> {}, selectedCount |-> Cardinality(selectedIds),
         before |-> selectedIds, touched |-> FALSE, stable |-> TRUE,
         tr |-> totalRecords, n |-> remote, rc |-> remoteChanges,
         order |-> <<>>, view |-> <<>>,
         issued |-> IF pages = 0 THEN <<>> ELSE <<BatchPages(0, pages)>>]

\* a call that starts from the rows of the loaded page
NewCallFromView(k) ==
    LET pages == PagesToFetch(k, totalRecords)
    IN  [seq |-> bulkSeq + 1, totalToSelect |-> k, pagesToFetch |-> pages,
         i |-> 0, pending |-> Batch(0, pages), results |-> <<>>,
         newSelectedIds |-> Range(Take(artworks, k)),
         selectedCount |-> Len(Take(artworks, k)),
         before |-> selectedIds, touched |-> FALSE, stable |-> TRUE,
         tr |-> totalRecords, n |-> remote, rc |-> remoteChanges,
         order |-> <<>>, view |-> <<>>,
         issued |-> IF pages = 0 THEN <<>> ELSE <<BatchPages(0, pages)>>]

\* the locals of a call started now with totalToSelect = k > 0, up to its
\* first await: the first batch is issued
NewCall(k) ==
    LET pages == PagesToFetch(k, totalRecords)
    IN  [seq |-> bulkSeq + 1, totalToSelect |-> k, pagesToFetch |-> pages,
         i |-> 0, pending |-> Batch(0, pages), results |-> <<>>,
         newSelectedIds |-> {}, selectedCount |-> 0,
         before |-> selectedIds, touched |-> FALSE, stable |-> TRUE,
         tr |-> totalRecords, n |-> remote, rc |-> remoteChanges,
         order |-> <<>>, view |-> <<>>,
         issued |-> IF pages = 0 THEN <<>> ELSE <<BatchPages(0, pages)>>]

\* setSelectedIds(newSelectedIds) moved into the finally block
SelectionAtEndAlways(o, outcome) == o.newSelectedIds

\* setSelectedIds merging the collected identifiers into the selection, as
\* an additive bulk selection would
SelectionAtEndMerging(o, outcome) ==
    IF outcome = "ok" THEN selectedIds \cup o.newSelectedIds ELSE selectedIds

\* setSelectedIds skipped when a manual operation ran during the call
SelectionAtEndUnlessTouched(o, outcome) ==
    IF outcome = "ok" /\ ~o.touched THEN o.newSelectedIds ELSE selectedIds

\* selectedIds at the end of a call: setSelectedIds(newSelectedIds) is the
\* last statement of the try block, so it is skipped when anything threw
SelectionAtEnd(o, outcome) ==
    IF outcome = "ok" THEN o.newSelectedIds ELSE selectedIds

\* the end of a call with setFirst(0) as the last statement of the try
\* block, skipped when anything threw
FinishResetOnSuccess(o, outcome, rest) ==
    /\ selectedIds' = SelectionAtEnd(o, outcome)
    /\ bulkSelectLoading' = FALSE
    /\ first' = IF outcome = "ok" THEN 0 ELSE first
    /\ nav' = NavAfterSetFirst(first')
    /\ loading' = LoadingAfterSetFirst(first')
    /\ ops' = rest
    /\ done' = [Finished(o, outcome, selectedIds') EXCEPT
                    !.seen = Seen("fulfilled", bulkSelectLoading')]
    /\ donePrev' = done
    /\ lastOp' = IF outcome = "ok" THEN "bulkOk" ELSE "bulkFail"
    /\ prevSel' = selectedIds

\* the end of a call with setBulkSelectLoading(false) as the last statement
\* of the try block, not in finally
FinishBusyOnFailure(o, outcome, rest) ==
    /\ selectedIds' = SelectionAtEnd(o, outcome)
    /\ bulkSelectLoading' = (outcome # "ok")
    /\ first' = 0
    /\ nav' = NavAfterSetFirst(0)
    /\ loading' = LoadingAfterSetFirst(0)
    /\ ops' = rest
    /\ done' = [Finished(o, outcome, selectedIds') EXCEPT
                    !.seen = Seen("fulfilled", bulkSelectLoading')]
    /\ donePrev' = done
    /\ lastOp' = IF outcome = "ok" THEN "bulkOk" ELSE "bulkFail"
    /\ prevSel' = selectedIds

\* the end of a call: setSelectedIds(newSelectedIds) when nothing threw, then
\* finally setBulkSelectLoading(false), then setFirst(0) with its useEffect;
\* the catch block logs and rethrows nothing, so the async function returns
\* and its promise is fulfilled whatever the outcome
Finish(o, outcome, rest) ==
    /\ selectedIds' = SelectionAtEnd(o, outcome)
    /\ bulkSelectLoading' = FALSE
    /\ first' = 0
    /\ nav' = NavAfterSetFirst(0)
    /\ loading' = LoadingAfterSetFirst(0)
    /\ ops' = rest
    /\ done' = [Finished(o, outcome, selectedIds') EXCEPT
                    !.seen = Seen("fulfilled", bulkSelectLoading')]
    /\ donePrev' = done
    /\ lastOp' = IF outcome = "ok" THEN "bulkOk" ELSE "bulkFail"
    /\ prevSel' = selectedIds

\* the loop over the results in the order in which they arrived
RECURSIVE ProcessArrived(_, _, _, _, _)
ProcessArrived(pages, results, sel, count, k) ==
    IF pages = <<>> \/ count >= k
    THEN [threw |-> FALSE, sel |-> sel, count |-> count]
    ELSE LET body == results[Head(pages)]
         IN  IF ~body.wellFormed
             THEN [threw |-> TRUE, sel |-> sel, count |-> count]
             ELSE LET step == ProcessPage(body.data, sel, count, k)
                  IN  ProcessArrived(Tail(pages), results, step.sel,
                                     step.count, k)

\* the code after the await with the results taken in arrival order, as
\* they would be were they pushed to an array as they come
ResumeInArrivalOrder(o, rest) ==
    LET r  == ProcessArrived(
                  SelectSeq(o.order,
                            LAMBDA q : q \in Batch(o.i, o.pagesToFetch)),
                  o.results, o.newSelectedIds, o.selectedCount,
                  o.totalToSelect)
        i2 == o.i + CONCURRENT_REQUESTS
        o2 == [o EXCEPT !.newSelectedIds = r.sel, !.selectedCount = r.count,
                        !.i = i2, !.results = <<>>,
                        !.pending = Batch(i2, o.pagesToFetch),
                        !.issued = Append(@, BatchPages(i2, o.pagesToFetch))]
    IN  IF r.threw
        THEN Finish([o EXCEPT !.newSelectedIds = r.sel, !.selectedCount = r.count],
                    "fail", rest)
        ELSE IF MoreBatches(i2, o.pagesToFetch, r.count, o.totalToSelect)
        THEN /\ ops' = rest \cup {o2}
             /\ lastOp' = "progress"
             /\ prevSel' = selectedIds
             /\ UNCHANGED <<selectedIds, bulkSelectLoading, first, nav,
                            loading, done, donePrev>>
        ELSE Finish([o EXCEPT !.newSelectedIds = r.sel, !.selectedCount = r.count],
                    "ok", rest)

\* the code after the await with one retry: a batch whose results throw is
\* requested once more before the call gives up
ResumeRetrying(o, rest) ==
    LET r  == ProcessBatch(Batch(o.i, o.pagesToFetch), o.results,
                           o.newSelectedIds, o.selectedCount, o.totalToSelect)
        i2 == o.i + CONCURRENT_REQUESTS
        o2 == [o EXCEPT !.newSelectedIds = r.sel, !.selectedCount = r.count,
                        !.i = i2, !.results = <<>>,
                        !.pending = Batch(i2, o.pagesToFetch),
                        !.issued = Append(@, BatchPages(i2, o.pagesToFetch))]
        again == [o EXCEPT !.results = <<>>,
                           !.pending = Batch(o.i, o.pagesToFetch),
                           !.issued = Append(@, BatchPages(o.i, o.pagesToFetch))]
    IN  IF r.threw /\ Len(o.issued) <= (o.i \div CONCURRENT_REQUESTS) + 1
        THEN /\ ops' = rest \cup {again}
             /\ lastOp' = "progress"
             /\ prevSel' = selectedIds
             /\ UNCHANGED <<selectedIds, bulkSelectLoading, first, nav,
                            loading, done, donePrev>>
        ELSE IF r.threw
        THEN Finish([o EXCEPT !.newSelectedIds = r.sel, !.selectedCount = r.count],
                    "fail", rest)
        ELSE IF MoreBatches(i2, o.pagesToFetch, r.count, o.totalToSelect)
        THEN /\ ops' = rest \cup {o2}
             /\ lastOp' = "progress"
             /\ prevSel' = selectedIds
             /\ UNCHANGED <<selectedIds, bulkSelectLoading, first, nav,
                            loading, done, donePrev>>
        ELSE Finish([o EXCEPT !.newSelectedIds = r.sel, !.selectedCount = r.count],
                    "ok", rest)

\* the code after the await with the try block inside the loop: a batch whose
\* results throw is skipped and the loop goes on to the next batch
ResumeContinuing(o, rest) ==
    LET r  == ProcessBatch(Batch(o.i, o.pagesToFetch), o.results,
                           o.newSelectedIds, o.selectedCount, o.totalToSelect)
        i2 == o.i + CONCURRENT_REQUESTS
        o2 == [o EXCEPT !.newSelectedIds = r.sel, !.selectedCount = r.count,
                        !.i = i2, !.results = <<>>,
                        !.pending = Batch(i2, o.pagesToFetch),
                        !.issued = Append(@, BatchPages(i2, o.pagesToFetch))]
    IN  IF MoreBatches(i2, o.pagesToFetch, r.count, o.totalToSelect)
        THEN /\ ops' = rest \cup {o2}
             /\ lastOp' = "progress"
             /\ prevSel' = selectedIds
             /\ UNCHANGED <<selectedIds, bulkSelectLoading, first, nav,
                            loading, done, donePrev>>
        ELSE Finish([o EXCEPT !.newSelectedIds = r.sel, !.selectedCount = r.count],
                    IF r.threw THEN "fail" ELSE "ok", rest)

\* the code after await Promise.all(batchPromises), every fetch of the batch
\* having been fulfilled: the results are processed, then the next batch is
\* issued or the call ends
Resume(o, rest) ==
    LET r  == ProcessBatch(Batch(o.i, o.pagesToFetch), o.results,
                           o.newSelectedIds, o.selectedCount, o.totalToSelect)
        i2 == o.i + CONCURRENT_REQUESTS
        o2 == [o EXCEPT !.newSelectedIds = r.sel, !.selectedCount = r.count,
                        !.i = i2, !.results = <<>>,
                        !.pending = Batch(i2, o.pagesToFetch),
                        !.issued = Append(@, BatchPages(i2, o.pagesToFetch))]
    IN  IF r.threw
        THEN Finish([o EXCEPT !.newSelectedIds = r.sel, !.selectedCount = r.count],
                    "fail", rest)
        ELSE IF MoreBatches(i2, o.pagesToFetch, r.count, o.totalToSelect)
        THEN /\ ops' = rest \cup {o2}
             /\ lastOp' = "progress"
             /\ prevSel' = selectedIds
             /\ UNCHANGED <<selectedIds, bulkSelectLoading, first, nav,
                            loading, done, donePrev>>
        ELSE Finish([o EXCEPT !.newSelectedIds = r.sel, !.selectedCount = r.count],
                    "ok", rest)

\* a pool in place of batches: every fulfilled fetch at once lets the first
\* page of the next batch be fetched
FulfilEager(o, p, body) ==
    LET next == o.i + CONCURRENT_REQUESTS + 1
        more == IF /\ next <= o.pagesToFetch
                   /\ next \notin o.pending
                   /\ next \notin DOMAIN o.results
                THEN {next} ELSE {}
        o1 == [o EXCEPT !.pending = (@ \ {p}) \cup more,
                        !.results = (p :> body) @@ @]
    IN  /\ IF o1.pending = {}
           THEN Resume(o1, ops \ {o})
           ELSE /\ ops' = (ops \ {o}) \cup {o1}
                /\ lastOp' = "progress"
                /\ prevSel' = selectedIds
                /\ UNCHANGED <<selectedIds, bulkSelectLoading, first, nav,
                               loading, done, donePrev>>
        /\ UNCHANGED <<selectedArtworks, tg, remote, remoteChanges, artworks,
                       totalRecords, tempRows, orphans, bulkSeq, steps>>

\* the locals of call o once the fetch of page p has been fulfilled with body
Arrived(o, p, body) ==
    [o EXCEPT !.pending = @ \ {p}, !.results = (p :> body) @@ @]

\* call o goes on as o1 after a fetch was fulfilled: Promise.all resolves
\* when no fetch of the batch is left, and waits otherwise
Settle(o, o1) ==
    /\ IF o1.pending = {}
       THEN Resume(o1, ops \ {o})
       ELSE /\ ops' = (ops \ {o}) \cup {o1}
            /\ lastOp' = "progress"
            /\ prevSel' = selectedIds
            /\ UNCHANGED <<selectedIds, bulkSelectLoading, first, nav,
                           loading, done, donePrev>>
    /\ UNCHANGED <<selectedArtworks, tg, remote, remoteChanges, artworks,
                   totalRecords, tempRows, orphans, bulkSeq, steps>>

\* a fetch of a batch is fulfilled with the parsed body
Fulfil(o, p, body) == Settle(o, Arrived(o, p, body))

\* the same, the order in which the responses arrive being kept as history
FulfilRecorded(o, p, body) ==
    Settle(o, [Arrived(o, p, body) EXCEPT !.order = Append(@, p)])

\* the clear path without its return: the call goes on to setFirst(0)
ApplyClearNoReturn ==
    /\ CanApply
    /\ steps < MaxSteps
    /\ steps' = steps + 1
    /\ TotalToSelect(tempRows) <= 0
    /\ bulkSeq' = bulkSeq + 1
    /\ selectedIds' = {}
    /\ first' = 0
    /\ nav' = NavAfterSetFirst(0)
    /\ loading' = LoadingAfterSetFirst(0)
    /\ done' = [NoBulk EXCEPT !.outcome = "clear", !.seq = bulkSeq + 1,
                              !.k = TotalToSelect(tempRows), !.tr = totalRecords,
                              !.n = remote, !.rc = remoteChanges,
                              !.before = selectedIds,
                              !.seen = Seen("fulfilled", bulkSelectLoading)]
    /\ donePrev' = done
    /\ lastOp' = "bulkClear"
    /\ prevSel' = selectedIds
    /\ UNCHANGED <<selectedArtworks, tg, remote, remoteChanges, artworks,
                   totalRecords, tempRows, bulkSelectLoading, ops, orphans>>

\* Apply Bulk Selection with totalToSelect <= 0: the selection is cleared
ApplyClear ==
    /\ CanApply
    /\ steps < MaxSteps
    /\ steps' = steps + 1
    /\ TotalToSelect(tempRows) <= 0
    /\ bulkSeq' = bulkSeq + 1
    /\ selectedIds' = {}
    /\ done' = [NoBulk EXCEPT !.outcome = "clear", !.seq = bulkSeq + 1,
                              !.k = TotalToSelect(tempRows), !.tr = totalRecords,
                              !.n = remote, !.rc = remoteChanges,
                              !.before = selectedIds,
                              !.seen = Seen("fulfilled", bulkSelectLoading)]
    /\ donePrev' = done
    /\ lastOp' = "bulkClear"
    /\ prevSel' = selectedIds
    /\ UNCHANGED <<selectedArtworks, tg, remote, remoteChanges, artworks,
                   loading, totalRecords, first, tempRows, bulkSelectLoading,
                   nav, ops, orphans>>

\* Apply Bulk Selection with totalToSelect > 0, up to the first await, o
\* being the locals of the call; with no page to fetch the call runs to its
\* end at once
StartCall(o) ==
    /\ CanApply
    /\ steps < MaxSteps
    /\ steps' = steps + 1
    /\ TotalToSelect(tempRows) > 0
    /\ bulkSeq' = bulkSeq + 1
    /\ IF o.pagesToFetch = 0
       THEN Finish(o, "ok", ops)
       ELSE /\ bulkSelectLoading' = TRUE
            /\ ops' = ops \cup {o}
            /\ lastOp' = "bulkStart"
            /\ prevSel' = selectedIds
            /\ UNCHANGED <<selectedIds, first, nav, loading, done, donePrev>>
    /\ UNCHANGED <<selectedArtworks, tg, remote, remoteChanges, artworks,
                   totalRecords, tempRows, orphans>>

ApplyStart == StartCall(NewCall(TotalToSelect(tempRows)))

\* the view: the row offset and the loaded page
View == [first |-> first, artworks |-> artworks]

\* the same, the view the call starts in being kept as history
ApplyStartViewed ==
    StartCall([NewCall(TotalToSelect(tempRows)) EXCEPT !.view = <<View>>])

BulkFetchOk ==
    \E o \in ops : \E p \in o.pending : Fulfil(o, p, Response(p, remote))

BulkFetchMalformed ==
    \E o \in ops : \E p \in o.pending : Fulfil(o, p, Malformed)

\* a fetch of a batch is rejected (fetch or response.json()): Promise.all
\* rejects at once, the call ends in catch and finally, and the other fetches
\* of the batch stay in flight
BulkFetchReject ==
    \E o \in ops : \E p \in o.pending :
        /\ Finish(o, "fail", ops \ {o})
        /\ orphans' = orphans \cup {[seq |-> o.seq, page |-> q] : q \in o.pending \ {p}}
        /\ UNCHANGED <<selectedArtworks, tg, remote, remoteChanges, artworks,
                       totalRecords, tempRows, bulkSeq, steps>>

\* a fetch of a batch is fulfilled, its place in the order of arrival noted
BulkFetchArrives ==
    \E o \in ops : \E p \in o.pending :
        FulfilRecorded(o, p, Response(p, remote))

\* a fetch whose call has ended settles: nobody awaits it
OrphanSettle ==
    /\ \E f \in orphans : orphans' = orphans \ {f}
    /\ lastOp' = "progress"
    /\ prevSel' = selectedIds
    /\ UNCHANGED <<selectedArtworks, tg, remote, remoteChanges, artworks,
                   loading, totalRecords, first, selectedIds, tempRows,
                   bulkSelectLoading, nav, ops, bulkSeq, steps, done,
                   donePrev>>

----------------------------------------------------------------------------
(* The specification of the identifier-set component.                      *)

Next ==
    \/ RemoteChange
    \/ OnPageChange
    \/ FetchDataOk
    \/ FetchDataFail
    \/ FetchDataNoPagination
    \/ OnDataTableSelectionChange
    \/ SelectAllCurrentPage
    \/ DeselectAllCurrentPage
    \/ ClearAllSelections
    \/ SetTempRows
    \/ ApplyClear
    \/ ApplyStart
    \/ BulkFetchOk
    \/ BulkFetchMalformed
    \/ BulkFetchReject
    \/ OrphanSettle

Spec == Init /\ [][Next]_vars

----------------------------------------------------------------------------
(* Bulk selections whose responses arrive in every order.                  *)

NextArrival ==
    \/ FetchDataOk
    \/ SetTempRows
    \/ ApplyStart
    \/ BulkFetchArrives

SpecArrival == Init /\ [][NextArrival]_vars

----------------------------------------------------------------------------
(* The component over a collection larger than the input's upper limit:    *)
(* the page is loaded, numbers are typed and bulk selections run.          *)

InitCap == Mounted(CapSizes)

NextCap ==
    \/ FetchDataOk
    \/ SetTempRowsNearCap
    \/ ApplyStart
    \/ BulkFetchOk

SpecCap == InitCap /\ [][NextCap]_vars

----------------------------------------------------------------------------
(* Bulk selections over a collection that changes, with failing fetches    *)
(* and page changes, the manual selection handlers left out.               *)

NextBulk ==
    \/ RemoteChange
    \/ OnPageChange
    \/ FetchDataOk
    \/ SetTempRows
    \/ ApplyClear
    \/ ApplyStart
    \/ BulkFetchOk
    \/ BulkFetchMalformed
    \/ BulkFetchReject
    \/ OrphanSettle

SpecBulk == Init /\ [][NextBulk]_vars

----------------------------------------------------------------------------
(* Bulk selections every one of whose fetches is answered in the end: the  *)
(* remote side fulfils or rejects each request it has received.            *)

BulkFetchSettles ==
    \/ BulkFetchReject
    \/ BulkFetchMalformed
    \/ BulkFetchOk

NextLive ==
    \/ RemoteChange
    \/ FetchDataOk
    \/ SetTempRows
    \/ ApplyStart
    \/ BulkFetchSettles
    \/ OrphanSettle

SpecLive == Init /\ [][NextLive]_vars /\ WF_vars(BulkFetchSettles)

----------------------------------------------------------------------------
(* The component over a collection that becomes empty: rows are selected   *)
(* and a number is typed while it has items, pages are loaded and bulk     *)
(* selections run before and after.                                        *)

NextEmptied ==
    \/ RemoteVanishes
    \/ OnPageChange
    \/ FetchDataOk
    \/ SelectAllCurrentPage
    \/ SetTempRows
    \/ ApplyStart
    \/ BulkFetchOk

SpecEmptied == Init /\ [][NextEmptied]_vars

----------------------------------------------------------------------------
(* Manual selection while bulk selections run, over a collection that      *)
(* does not change.                                                        *)

NextRace ==
    \/ OnPageChange
    \/ FetchDataOk
    \/ OnDataTableSelectionChange
    \/ SelectAllCurrentPage
    \/ DeselectAllCurrentPage
    \/ ClearAllSelections
    \/ SetTempRows
    \/ ApplyStart
    \/ BulkFetchOk
    \/ BulkFetchReject

SpecRace == Init /\ [][NextRace]_vars

----------------------------------------------------------------------------
(* The custom-table variant (part_000): the selection is an array of       *)
(* artworks, here of their identifiers, and every row has its own          *)
(* checkbox handled by handleCheckboxChange.                               *)

\* handleCheckboxChange with the test of its filter inverted
HandleCheckboxChangeInverted(prevSelected, id, isChecked) ==
    IF isChecked
    THEN IF ~(\E k \in 1..Len(prevSelected) : prevSelected[k] = id)
         THEN Append(prevSelected, id)
         ELSE prevSelected
    ELSE SelectSeq(prevSelected, LAMBDA item : item = id)

\* the updater of handleCheckboxChange(artwork, isChecked), on prevSelected
HandleCheckboxChange(prevSelected, id, isChecked) ==
    IF isChecked
    THEN IF ~(\E k \in 1..Len(prevSelected) : prevSelected[k] = id)
         THEN Append(prevSelected, id)
         ELSE prevSelected
    ELSE SelectSeq(prevSelected, LAMBDA item : item # id)

\* identifiers of the rows whose checkbox is clicked
ClickedIds == Range(Take(PageData(1, MaxTotal), MaxRows))

\* onChange of a row's checkbox
OnCheckboxChange ==
    /\ \E id \in ClickedIds : \E isChecked \in BOOLEAN :
        /\ selectedArtworks' = HandleCheckboxChange(selectedArtworks, id, isChecked)
        /\ tg' = (IF tg = <<>> THEN <<>> ELSE <<tg[Len(tg)]>>)
                 \o <<[id |-> id, checked |-> isChecked, before |-> selectedArtworks]>>
    /\ UNCHANGED mainVars

\* Clear All Selections, rendered when selectedArtworks.length > 0
ClearSelectedArtworks ==
    /\ Len(selectedArtworks) > 0
    /\ selectedArtworks' = <<>>
    /\ tg' = <<>>
    /\ UNCHANGED mainVars

NextToggle ==
    \/ OnCheckboxChange
    \/ ClearSelectedArtworks

SpecToggle == Init /\ [][NextToggle]_vars

----------------------------------------------------------------------------
(* Bulk selections started from any loaded page, the view each call starts *)
(* in being kept as history; the collection does not change.               *)

NextView ==
    \/ OnPageChange
    \/ FetchDataOk
    \/ SetTempRows
    \/ ApplyStartViewed
    \/ BulkFetchOk

SpecView == Init /\ [][NextView]_vars

----------------------------------------------------------------------------
(* Page changes alone, over a collection that does not change: every       *)
(* navigation fetch succeeds, and the responses come back in any order.    *)

NextNav ==
    \/ OnPageChange
    \/ FetchDataOk

SpecNav == Init /\ [][NextNav]_vars

----------------------------------------------------------------------------
(* The DataTable's checkboxes, in the identifier-set component and in the  *)
(* array variant (selectedArtworks, here an array of identifiers), what    *)
(* the handler was given being kept as history.                            *)

\* the history record of an onDataTableSelectionChange call
SelectionCall(variant, value, before) ==
    [variant |-> variant, value |-> value, page |-> CurrentPageIds,
     before |-> before]

\* onDataTableSelectionChange of the identifier-set component
OnDataTableSelectionChangeRecorded ==
    \E value \in SelectionValues :
        /\ ManualStep("selectionChange",
                      SelectionChanged(selectedIds, CurrentPageIds, value))
        /\ tg' = <<SelectionCall("set", value, selectedIds)>>
        /\ UNCHANGED selectedArtworks

\* the rows of the loaded page with an identifier in ids, in page order
PageRows(ids) == SelectSeq(artworks, LAMBDA id : id \in ids)

\* the arrays the DataTable of the array variant hands to onSelectionChange:
\* rows of the loaded page (one row's checkbox flipped, all rows, none), and,
\* its selection prop being the whole array, that array with a clicked row
\* appended or filtered out
ArraySelectionValues ==
    LET shown == CurrentPageIds \cap Range(selectedArtworks)
    IN  {PageRows(CurrentPageIds), <<>>}
        \cup {PageRows(shown \ {artworks[r]}) : r \in ClickedRows}
        \cup {PageRows(shown \cup {artworks[r]}) : r \in ClickedRows}
        \cup {Append(selectedArtworks, artworks[r]) :
                  r \in {q \in ClickedRows : artworks[q] \notin Range(selectedArtworks)}}
        \cup {SelectSeq(selectedArtworks, LAMBDA item : item # artworks[r]) :
                  r \in {q \in ClickedRows : artworks[q] \in Range(selectedArtworks)}}

\* finalSelectedArtworks = [...updatedGlobalSelectedArtworks,
\* ...newlySelectedOnPage]
SelectionChangedArray(selected, pageIds, value) ==
    SelectSeq(selected, LAMBDA item : item \notin pageIds) \o value

\* onDataTableSelectionChange of the array variant
OnDataTableSelectionChangeArray ==
    /\ steps < MaxSteps
    /\ steps' = steps + 1
    /\ \E value \in ArraySelectionValues :
        /\ selectedArtworks' =
               SelectionChangedArray(selectedArtworks, CurrentPageIds, value)
        /\ tg' = <<SelectionCall("array", Range(value), Range(selectedArtworks))>>
    /\ UNCHANGED <<remote, remoteChanges, artworks, loading, totalRecords,
                   first, selectedIds, tempRows, bulkSelectLoading, nav, ops,
                   orphans, bulkSeq, lastOp, prevSel, done, donePrev>>

NextSelection ==
    \/ OnPageChange
    \/ FetchDataOk
    \/ OnDataTableSelectionChangeRecorded
    \/ OnDataTableSelectionChangeArray

SpecSelection == Init /\ [][NextSelection]_vars

----------------------------------------------------------------------------
(* The Select Page and Deselect Page buttons, pressed on any loaded page,  *)
(* the last two presses being kept as history; nothing else changes the    *)
(* selection.                                                              *)

\* the history record of a press of one of the two buttons
PageButtonCall(name) ==
    [op |-> name, page |-> CurrentPageIds, before |-> selectedIds]

\* the last press, followed by this one
PageButtonHistory(name) ==
    (IF tg = <<>> THEN <<>> ELSE <<tg[Len(tg)]>>) \o <<PageButtonCall(name)>>

\* onClick of the Select Page button
SelectAllCurrentPageRecorded ==
    /\ ManualStep("selectPage", SelectedAll(selectedIds, CurrentPageIds))
    /\ tg' = PageButtonHistory("selectPage")
    /\ UNCHANGED selectedArtworks

\* onClick of the Deselect Page button
DeselectAllCurrentPageRecorded ==
    /\ ManualStep("deselectPage", DeselectedAll(selectedIds, CurrentPageIds))
    /\ tg' = PageButtonHistory("deselectPage")
    /\ UNCHANGED selectedArtworks

NextPageButtons ==
    \/ OnPageChange
    \/ FetchDataOk
    \/ SelectAllCurrentPageRecorded
    \/ DeselectAllCurrentPageRecorded

SpecPageButtons == Init /\ [][NextPageButtons]_vars

----------------------------------------------------------------------------
(* The custom paginator of part_000. Its fetchData and useEffect are those *)
(* of the identifier-set component, line for line.                         *)

\* currentPage = Math.floor(first / API_PAGE_SIZE), 0-based
CurrentPage(f) == f \div API_PAGE_SIZE

\* onPageChange({first: f, ...}): setFirst(f), and the useEffect on [first]
PaginatorPageChange(f) ==
    /\ steps < MaxSteps
    /\ steps' = steps + 1
    /\ first' = f
    /\ nav' = NavAfterSetFirst(f)
    /\ loading' = LoadingAfterSetFirst(f)
    /\ lastOp' = "pageChange"
    /\ prevSel' = selectedIds
    /\ UNCHANGED <<selectedArtworks, tg, remote, remoteChanges, artworks,
                   totalRecords, selectedIds, tempRows, bulkSelectLoading,
                   ops, orphans, bulkSeq, done, donePrev>>

\* the Previous button, disabled when currentPage === 0
PreviousPage ==
    /\ ~(CurrentPage(first) = 0)
    /\ PaginatorPageChange(first - API_PAGE_SIZE)

\* the Next button, disabled when currentPage >= pageCount - 1
NextPage ==
    /\ ~(CurrentPage(first) >= PageCount(totalRecords) - 1)
    /\ PaginatorPageChange(first + API_PAGE_SIZE)

\* the numbered buttons, one for every i below pageCount
PageButton ==
    \E i \in 0..(PageCount(totalRecords) - 1) :
        PaginatorPageChange(i * API_PAGE_SIZE)

NextPaginator ==
    \/ RemoteChange
    \/ PreviousPage
    \/ NextPage
    \/ PageButton
    \/ FetchDataOk
    \/ FetchDataFail
    \/ FetchDataNoPagination

SpecPaginator == Init /\ [][NextPaginator]_vars

\* the same component mounted over a collection of any size up to MaxTotal
InitPages == Mounted(0..MaxTotal)

SpecPages == InitPages /\ [][NextPaginator]_vars

----------------------------------------------------------------------------
(* The sequential bulk selection of the array variants: one page after     *)
(* another, over a collection of n items that does not change and with no  *)
(* failing fetch.                                                          *)

\* the while loop's test with the last page left out
SequentialMoreStrict(selectedCount, currentPage, k, maxPages) ==
    selectedCount < k /\ currentPage < maxPages

\* the while loop's test: selectedCount < totalToSelect && currentPage <= maxPages
SequentialMore(selectedCount, currentPage, k, maxPages) ==
    selectedCount < k /\ currentPage <= maxPages

\* the while loop: the page is fetched, its artworks are pushed while
\* selectedCount < totalToSelect, currentPage++; selectedCount is the length
\* of newSelectedItems throughout
RECURSIVE SequentialLoop(_, _, _, _, _)
SequentialLoop(newSelectedItems, currentPage, k, maxPages, n) ==
    IF SequentialMore(Len(newSelectedItems), currentPage, k, maxPages)
    THEN SequentialLoop(
             newSelectedItems
                 \o Take(PageData(currentPage, n), k - Len(newSelectedItems)),
             currentPage + 1, k, maxPages, n)
    ELSE newSelectedItems

\* newSelectedItems at setSelectedArtworks(newSelectedItems), for
\* totalToSelect = k > 0 and totalRecords = tr
NewSelectedItems(k, tr, n) == SequentialLoop(<<>>, 1, k, PageCount(tr), n)

----------------------------------------------------------------------------
(* Properties.                                                             *)

\* the first k identifiers of a collection of n items, in canonical order
FirstIds(k, n) == {IdAt(pos) : pos \in 1..Min(k, n)}

\* a finished call that produced a selection
Produced(d) == d.outcome \in {"ok", "clear"}

\* a call that succeeded against a collection that did not change during it
\* and whose size was the totalRecords the call started with
Settled(d) == d.outcome = "ok" /\ d.stable /\ d.tr = d.n

\* two successive finished calls against one unchanged collection
SameCollection == Produced(donePrev) /\ Produced(done) /\ donePrev.stable
                  /\ done.stable /\ donePrev.rc = done.rc

\* C1: a successful bulk selection of K against an unchanged collection of
\* totalRecords items leaves exactly min(K, totalRecords) identifiers
C1_SizeIsMin ==
    Settled(done) => Cardinality(done.after) = Min(done.k, done.tr)

\* a call asked for more than the collection holds and selected all of it
C1_Witness ==
    /\ Settled(done)
    /\ done.k > done.tr
    /\ done.tr > 0
    /\ selectedIds = done.after

\* C2: a successful bulk selection of K leaves exactly the first
\* min(K, totalRecords) identifiers in canonical order; of the page that
\* crosses the threshold only the leading items are taken
C2_CanonicalPrefix ==
    Settled(done) => done.after = FirstIds(done.k, done.tr)

\* a call took the whole first page and only the leading item of the second
C2_Witness ==
    /\ Settled(done)
    /\ done.k = API_PAGE_SIZE + 1
    /\ done.tr > 2 * API_PAGE_SIZE
    /\ done.after = FirstIds(API_PAGE_SIZE + 1, done.tr)

\* C3: a bulk selection in which a fetch fails applies nothing: the step
\* that ends it leaves the selection as it is, and when no manual operation
\* ran meanwhile the selection equals the one before the call
C3_FailureAtomic ==
    /\ lastOp = "bulkFail" => selectedIds = prevSel
    /\ (done.outcome = "fail" /\ ~done.touched) => done.after = done.before

\* a call failed in its second batch, with identifiers already collected,
\* and the non-empty selection from before the call is still there
C3_Witness ==
    /\ lastOp = "bulkFail"
    /\ done.outcome = "fail"
    /\ ~done.touched
    /\ done.i >= CONCURRENT_REQUESTS
    /\ done.collected # {}
    /\ done.before # {}
    /\ selectedIds = done.before

\* C4: a selection is only ever replaced by the bulk request started last:
\* every call in flight is the latest one started, and a call that has just
\* ended with success is the latest one started
C4_LastWriterWins ==
    /\ \A o \in ops : o.seq = bulkSeq
    /\ lastOp = "bulkOk" => done.seq = bulkSeq

\* a second request has replaced the selection left by a first one
C4_Witness ==
    /\ lastOp = "bulkOk"
    /\ bulkSeq = 2
    /\ done.seq = 2
    /\ donePrev.outcome = "ok"
    /\ donePrev.seq = 1
    /\ done.k # donePrev.k
    /\ selectedIds = done.after

\* the fetches of the call numbered q that are in flight
Outstanding(q) ==
    UNION {{[seq |-> q, page |-> p] : p \in o.pending} : o \in {x \in ops : x.seq = q}}
    \cup {f \in orphans : f.seq = q}

\* C5: no bulk selection ever has more than CONCURRENT_REQUESTS of its page
\* fetches in flight
C5_ConcurrencyBound ==
    \A q \in 1..bulkSeq : Cardinality(Outstanding(q)) <= CONCURRENT_REQUESTS

\* a call that needs more pages than the limit has exactly the limit in flight
C5_Witness ==
    \E o \in ops : /\ o.pagesToFetch > CONCURRENT_REQUESTS
                   /\ Cardinality(Outstanding(o.seq)) = CONCURRENT_REQUESTS

\* C6: against an unchanged collection the result for K is a subset of the
\* result for K + 1, in whichever order the two calls are made
C6_MonotonePrefix ==
    SameCollection =>
        /\ done.k = donePrev.k + 1 => donePrev.after \subseteq done.after
        /\ donePrev.k = done.k + 1 => done.after \subseteq donePrev.after

\* K ends a page and K + 1 takes the first item of the next page
C6_Witness ==
    /\ SameCollection
    /\ donePrev.outcome = "ok"
    /\ done.outcome = "ok"
    /\ done.k = donePrev.k + 1
    /\ donePrev.k >= API_PAGE_SIZE
    /\ Cardinality(done.after) = Cardinality(donePrev.after) + 1

\* C7: two successive bulk selections with the same K against an unchanged
\* collection leave the same selection, whatever was selected before
C7_Idempotent ==
    (SameCollection /\ done.k = donePrev.k) => done.after = donePrev.after

\* the same K was applied twice, the first time over another selection
C7_Witness ==
    /\ SameCollection
    /\ donePrev.outcome = "ok"
    /\ done.outcome = "ok"
    /\ done.k = donePrev.k
    /\ donePrev.before # {}
    /\ donePrev.before # donePrev.after
    /\ done.after = donePrev.after

\* the last two handleCheckboxChange calls were (x, true) then (x, false)
OnThenOff ==
    /\ Len(tg) = 2
    /\ tg[1].id = tg[2].id
    /\ tg[1].checked
    /\ ~tg[2].checked

\* C8, as stated: toggle(x, true) then toggle(x, false) restores the prior
\* membership of x and leaves every other identifier as it was
C8_ToggleRestores ==
    OnThenOff =>
        \A id \in Range(tg[1].before) \cup Range(selectedArtworks) \cup {tg[1].id} :
            id \in Range(selectedArtworks) <=> id \in Range(tg[1].before)

\* C8, amended: toggle(x, true) then toggle(x, false) leaves x unselected
\* and every other identifier as it was, in the same order; the selection
\* is the prior one when x was not selected before
C8_ToggleOnOff ==
    OnThenOff =>
        /\ tg[1].id \notin Range(selectedArtworks)
        /\ selectedArtworks = SelectSeq(tg[1].before, LAMBDA item : item # tg[1].id)
        /\ tg[1].id \notin Range(tg[1].before) => selectedArtworks = tg[1].before

\* an unselected row was toggled on and off again over a non-empty selection
C8_Witness ==
    /\ OnThenOff
    /\ tg[1].id \notin Range(tg[1].before)
    /\ tg[1].before # <<>>
    /\ tg[2].before = Append(tg[1].before, tg[1].id)
    /\ selectedArtworks = tg[1].before

\* C9: select page and deselect page change the membership of no identifier
\* outside the loaded page
C9_PageScoped ==
    lastOp \in {"selectPage", "deselectPage"} =>
        selectedIds \ CurrentPageIds = prevSel \ CurrentPageIds

\* deselect page removed the loaded page's identifiers and kept a selected
\* identifier of another page
C9_Witness ==
    /\ lastOp = "deselectPage"
    /\ prevSel \cap CurrentPageIds # {}
    /\ selectedIds # {}
    /\ selectedIds \cap CurrentPageIds = {}
    /\ selectedIds = prevSel \ CurrentPageIds

\* C10: a page change and the end of a navigation fetch, successful or not,
\* leave the selection as it is
C10_NavigationKeepsSelection ==
    lastOp \in {"pageChange", "navOk", "navFail"} => selectedIds = prevSel

\* a page was loaded that shows none of the selected identifiers
C10_Witness ==
    /\ lastOp = "navOk"
    /\ artworks # <<>>
    /\ selectedIds # {}
    /\ selectedIds \cap CurrentPageIds = {}

\* C11: the clear path (no number entered, which is what zero and anything
\* below it become) empties the selection as Clear All Selections does,
\* ends in that one step without failing, and issues no fetch: neither a
\* page fetch of a batch nor a navigation fetch
C11_ClearPath ==
    [][lastOp' = "bulkClear" =>
          /\ TotalToSelect(tempRows) <= 0
          /\ selectedIds' = {}
          /\ done'.outcome = "clear"
          /\ nav' = nav /\ ops' = ops /\ orphans' = orphans
          /\ first' = first /\ loading' = loading
          /\ bulkSelectLoading' = bulkSelectLoading]_vars

\* the clear path ran over a non-empty selection while another page than the
\* first was shown
C11_Witness ==
    /\ lastOp = "bulkClear"
    /\ prevSel # {}
    /\ selectedIds = {}
    /\ first # 0
    /\ tempRows = <<>>

\* C12: a successful bulk selection replaces the prior selection: every
\* identifier selected after it was collected by the call from a fetched
\* page, and an identifier selected before that is not among the first
\* min(K, totalRecords) is not selected after
C12_Supersedes ==
    lastOp = "bulkOk" =>
        /\ selectedIds \subseteq done.collected
        /\ Settled(done) =>
               selectedIds \cap (done.before \ FirstIds(done.k, done.tr)) = {}

\* a call succeeded over a selection that held identifiers beyond the first
\* K as well as some of the first K
C12_Witness ==
    /\ lastOp = "bulkOk"
    /\ Settled(done)
    /\ done.before \ FirstIds(done.k, done.tr) # {}
    /\ done.before \cap FirstIds(done.k, done.tr) # {}
    /\ selectedIds = FirstIds(done.k, done.tr)

\* C13: when manual operations (row checkbox, select page, deselect page,
\* clear all) ran while a bulk selection was in flight, the selection right
\* after its successful end is exactly what the call collected, the first
\* min(K, totalRecords) identifiers, and nothing of what they did is left
C13_BulkOverwritesManual ==
    (lastOp = "bulkOk" /\ done.touched) =>
        /\ selectedIds = done.collected
        /\ Settled(done) => selectedIds = FirstIds(done.k, done.tr)

\* a manual operation changed the selection during a call, and the call's
\* end replaced what it had left
C13_Witness ==
    /\ lastOp = "bulkOk"
    /\ done.touched
    /\ Settled(done)
    /\ prevSel # done.before
    /\ prevSel \ selectedIds # {}
    /\ selectedIds = FirstIds(done.k, done.tr)

C15_FailedFetchLocal ==
    [][lastOp' = "navFail" =>
          /\ selectedIds' = selectedIds
          /\ artworks' = artworks
          /\ totalRecords' = totalRecords
          /\ loading' = FALSE]_vars

\* the largest offset of a collection of tr items: max(0, pageCount - 1)
\* pages of API_PAGE_SIZE rows
LastOffset(tr) ==
    (IF PageCount(tr) - 1 > 0 THEN PageCount(tr) - 1 ELSE 0) * API_PAGE_SIZE

\* C16: in every reachable state the row offset first lies between 0 and
\* max(0, pageCount - 1) * pageSize, pageCount being
\* ceil(totalRecords / pageSize)
C16_OffsetInRange ==
    0 <= first /\ first <= LastOffset(totalRecords)

\* C17: a bulk selection in which a fetch failed ends, for its caller and
\* on the screen, differently from one that succeeded: of two calls, one
\* failed and one successful, the promise returned or the busy flag differs
C17_FailureSurfaced ==
    {donePrev.outcome, done.outcome} = {"ok", "fail"} =>
        done.seen # donePrev.seen

\* C18: the page fetched for the row offset first is the 1-based page p with
\* (p - 1) * pageSize <= first < p * pageSize, and pageCount is the least
\* number of pages that hold totalRecords rows, 0 when totalRecords is 0
C18_PageArithmetic ==
    /\ loading =>
           \E p \in BagToSet(nav) :
               /\ p >= 1
               /\ (p - 1) * API_PAGE_SIZE <= first
               /\ first < p * API_PAGE_SIZE
    /\ LET c == PageCount(totalRecords)
       IN  /\ c >= 0
           /\ c * API_PAGE_SIZE >= totalRecords
           /\ c > 0 => (c - 1) * API_PAGE_SIZE < totalRecords
           /\ totalRecords = 0 => c = 0

\* the third page is being fetched for the offset of its first row, of a
\* collection whose third page holds one row
C18_Witness ==
    /\ loading
    /\ first = 2 * API_PAGE_SIZE
    /\ 3 \in BagToSet(nav)
    /\ totalRecords = 2 * API_PAGE_SIZE + 1
    /\ PageCount(totalRecords) = 3

\* the batch a page belongs to, counted from 0
BatchOf(page) == (page - 1) \div CONCURRENT_REQUESTS

\* C19: within one bulk selection the batches follow one another: every
\* fetch in flight belongs to the batch the loop is at, whose earlier batches
\* have all been processed, and the fetches a call leaves behind when it
\* ends belong to one batch
C19_BatchesSequential ==
    /\ \A o \in ops :
           /\ \A p \in o.pending :
                  o.i < p /\ p <= o.i + CONCURRENT_REQUESTS
           /\ \A p \in DOMAIN o.results :
                  o.i < p /\ p <= o.i + CONCURRENT_REQUESTS
           /\ \A f \in orphans : f.seq # o.seq
    /\ \A f, g \in orphans :
           f.seq = g.seq => BatchOf(f.page) = BatchOf(g.page)

\* a call is in its second batch: the first batch has been processed whole
\* and a fetch of the second is in flight
C19_Witness ==
    \E o \in ops :
        /\ o.i = CONCURRENT_REQUESTS
        /\ o.pending # {}
        /\ o.selectedCount = CONCURRENT_REQUESTS * API_PAGE_SIZE
        /\ \A p \in o.pending : BatchOf(p) = 1

\* C20: two successful bulk selections with the same K against an unchanged
\* collection leave the same selection when the responses of their batches
\* arrived in different orders
C20_ArrivalOrderIrrelevant ==
    (/\ SameCollection
     /\ donePrev.outcome = "ok"
     /\ done.outcome = "ok"
     /\ done.k = donePrev.k
     /\ done.order # donePrev.order) => done.after = donePrev.after

\* K ends in the second page; page 1 answered first in one call and page 2
\* first in the next, and both left the first K identifiers
C20_Witness ==
    /\ SameCollection
    /\ donePrev.outcome = "ok"
    /\ done.outcome = "ok"
    /\ done.k = API_PAGE_SIZE + 1
    /\ donePrev.k = done.k
    /\ donePrev.order = <<1, 2>>
    /\ done.order = <<2, 1>>
    /\ done.after = donePrev.after
    /\ done.after = FirstIds(done.k, done.tr)

\* the pages a call has requested, in the order of its requests
RECURSIVE Flatten(_)
Flatten(batches) ==
    IF batches = <<>> THEN <<>> ELSE Head(batches) \o Flatten(Tail(batches))

\* the pages 1..n in ascending order
FirstPages(n) == [j \in 1..n |-> j]

\* P = ceil(K' / pageSize) with K' = min(K, totalRecords)
RequiredPages(k, tr) == CeilDiv(Min(k, tr), API_PAGE_SIZE)

\* C21: with K' = min(K, totalRecords) > 0 and P = ceil(K' / pageSize), P is
\* at most ceil(totalRecords / pageSize); a call in flight has requested the
\* pages 1 up to the end of its current batch, in batches of at most
\* CONCURRENT_REQUESTS pages, and issued its current batch with fewer than
\* K' identifiers counted; a call that ended with no failing fetch requested
\* exactly the pages 1..P in ceil(P / CONCURRENT_REQUESTS) batches
C21_PagesRequested ==
    /\ \A o \in ops :
           LET P == RequiredPages(o.totalToSelect, o.tr)
           IN  /\ P <= PageCount(o.tr)
               /\ Flatten(o.issued) = FirstPages(Min(o.i + CONCURRENT_REQUESTS, P))
               /\ Len(o.issued) <= CeilDiv(P, CONCURRENT_REQUESTS)
               /\ \A b \in 1..Len(o.issued) :
                      Len(o.issued[b]) <= CONCURRENT_REQUESTS
               /\ o.selectedCount < Min(o.totalToSelect, o.tr)
    /\ (done.outcome = "ok" /\ Min(done.k, done.tr) > 0) =>
           LET P == RequiredPages(done.k, done.tr)
           IN  /\ P <= PageCount(done.tr)
               /\ Flatten(done.issued) = FirstPages(P)
               /\ Len(done.issued) = CeilDiv(P, CONCURRENT_REQUESTS)
               /\ \A b \in 1..Len(done.issued) :
                      Len(done.issued[b]) <= CONCURRENT_REQUESTS

\* a call for one identifier more than a batch of full pages holds
\* requested four pages in two batches, the second of one page
C21_Witness ==
    /\ lastOp = "bulkOk"
    /\ done.k = CONCURRENT_REQUESTS * API_PAGE_SIZE + 1
    /\ done.tr >= done.k
    /\ Len(done.issued) = 2
    /\ Len(done.issued[2]) = 1
    /\ Flatten(done.issued) = FirstPages(CONCURRENT_REQUESTS + 1)
    /\ Cardinality(done.after) = done.k

\* a call holds a failed fetch: a response without a data array has arrived
HoldsFailure(o) == \E p \in DOMAIN o.results : ~o.results[p].wellFormed

\* C22: a call that holds a failed fetch issues no further batch, and a call
\* that ends on a failed fetch is gone at once: the batch of the failure is
\* the last one it issued, and the fetches it leaves in flight are of that
\* batch
C22_AbortOnFailure ==
    [][/\ \A o \in ops : HoldsFailure(o) =>
              \A o2 \in ops' : o2.seq = o.seq => o2.issued = o.issued
       /\ lastOp' = "bulkFail" =>
              /\ \A o2 \in ops' : o2.seq # done'.seq
              /\ Len(done'.issued) = (done'.i \div CONCURRENT_REQUESTS) + 1
              /\ \A f \in orphans' :
                     f.seq = done'.seq =>
                         f.page \in Range(done'.issued[Len(done'.issued)])]_vars

\* a call that needed two batches failed in its first one, with fetches of
\* that batch still in flight, and its second batch was never issued
C22_Witness ==
    /\ lastOp = "bulkFail"
    /\ RequiredPages(done.k, done.tr) > CONCURRENT_REQUESTS
    /\ Len(done.issued) = 1
    /\ \E f \in orphans : f.seq = done.seq
    /\ \A o \in ops : o.seq # done.seq

\* C23: bulkSelectLoading is true in every state in which a bulk selection
\* (a call with K > 0) is in flight and false in every state in which none
\* is, fetches left behind by a call that has ended notwithstanding
C23_BusyFlag ==
    /\ bulkSelectLoading <=> ops # {}
    /\ \A o \in ops : o.totalToSelect > 0

\* a call has failed, leaving a fetch in flight, and the flag is false; the
\* next call is not yet started
C23_Witness ==
    /\ lastOp = "bulkFail"
    /\ ops = {}
    /\ orphans # {}
    /\ ~bulkSelectLoading
    /\ donePrev.outcome = "ok"

\* C24: while a bulk selection is in flight the row checkboxes, Select Page
\* and Deselect Page stay enabled, as does Clear All Selections when
\* anything is selected, and each of them, run during a call, has changed
\* the selection by the time its step ends
C24_ManualNotBlocked ==
    /\ (ops # {} /\ steps < MaxSteps) =>
           /\ ENABLED OnDataTableSelectionChange
           /\ ENABLED SelectAllCurrentPage
           /\ ENABLED DeselectAllCurrentPage
           /\ selectedIds # {} => ENABLED ClearAllSelections
    /\ ops # {} =>
           /\ lastOp = "selectPage" => selectedIds = prevSel \cup CurrentPageIds
           /\ lastOp = "deselectPage" => selectedIds = prevSel \ CurrentPageIds
           /\ lastOp = "clearAll" => selectedIds = {}
           /\ lastOp = "selectionChange" =>
                  selectedIds \ CurrentPageIds = prevSel \ CurrentPageIds

\* Deselect Page has removed the loaded page's identifiers from a non-empty
\* selection while a bulk selection is waiting for its fetches
C24_Witness ==
    /\ lastOp = "deselectPage"
    /\ bulkSelectLoading
    /\ \E o \in ops : o.touched /\ o.pending # {}
    /\ prevSel \cap CurrentPageIds # {}
    /\ selectedIds = prevSel \ CurrentPageIds

\* the call numbered q has ended, in success or abort, within the batches
\* its pages make up, and the busy flag is false
Ended(q) ==
    /\ done.seq = q
    /\ done.outcome \in {"ok", "fail"}
    /\ Len(done.issued) <=
           CeilDiv(RequiredPages(done.k, done.tr), CONCURRENT_REQUESTS)
    /\ ~bulkSelectLoading
    /\ \A o \in ops : o.seq # q

\* C25: when every fetch issued is answered in the end, a state with a bulk
\* selection in flight (it is the call started last, no other can start
\* before it ends) leads to a state in which that call has ended, in
\* success or abort, having issued at most ceil(P / CONCURRENT_REQUESTS)
\* batches, and in which the busy flag is false
C25_Terminates ==
    (\E o \in ops : o.seq = bulkSeq) ~> Ended(bulkSeq)

\* a call has ended in its second batch on a failed fetch and the busy flag
\* is false
C25_Witness ==
    /\ lastOp = "bulkFail"
    /\ Ended(done.seq)
    /\ Len(done.issued) = 2
    /\ done.collected # {}

\* no element occurs twice in a sequence
NoDuplicates(seq) ==
    \A a, b \in 1..Len(seq) : a # b => seq[a] # seq[b]

\* C26: within one bulk selection every page is requested at most once,
\* while the call is in flight and once it has ended, in success or on a
\* failed fetch; a page of a failed call is requested again only by a new
\* call
C26_NoRetry ==
    /\ \A o \in ops : NoDuplicates(Flatten(o.issued))
    /\ NoDuplicates(Flatten(done.issued))
    /\ NoDuplicates(Flatten(donePrev.issued))
    /\ \A o \in ops : o.seq # done.seq /\ o.seq # donePrev.seq

\* a call failed after requesting several pages, and the call the user
\* started next is requesting the first page again
C26_Witness ==
    /\ done.outcome = "fail"
    /\ Len(Flatten(done.issued)) >= 2
    /\ \E o \in ops :
           /\ o.seq = done.seq + 1
           /\ Flatten(o.issued)[1] = Flatten(done.issued)[1]
           /\ 1 \in o.pending

\* C27: after a checkbox selection change with chosen rows V of the loaded
\* page, the selection is (selection \ pageIds) \cup ids(V): an identifier
\* of another page is selected iff it was before, an identifier of the
\* loaded page iff it is in V; in the identifier-set component and, for the
\* identifiers of its array, in the array variant
C27_SelectionChange ==
    (tg # <<>> /\ tg[1].value \subseteq tg[1].page) =>
        LET h   == tg[1]
            now == IF h.variant = "set" THEN selectedIds
                   ELSE Range(selectedArtworks)
        IN  /\ now = (h.before \ h.page) \cup h.value
            /\ \A id \in h.before \cup h.page \cup now :
                   /\ id \notin h.page => (id \in now <=> id \in h.before)
                   /\ id \in h.page => (id \in now <=> id \in h.value)

\* a row of the loaded page was unchecked while identifiers of another page
\* and another row of this page were selected: only that row left the
\* selection
C27_Witness ==
    /\ tg # <<>>
    /\ tg[1].variant = "set"
    /\ tg[1].value \subseteq tg[1].page
    /\ tg[1].value # {}
    /\ tg[1].before \ tg[1].page # {}
    /\ Cardinality((tg[1].before \cap tg[1].page) \ tg[1].value) = 1
    /\ selectedIds = (tg[1].before \ tg[1].page) \cup tg[1].value

SameCallOtherView ==
    /\ SameCollection
    /\ donePrev.outcome = "ok"
    /\ done.outcome = "ok"
    /\ done.k = donePrev.k
    /\ done.tr = donePrev.tr
    /\ done.n = donePrev.n
    /\ done.view # donePrev.view

\* C29: two bulk selections with the same K, the same totalRecords and the
\* same collection, started with different offsets and loaded pages, leave
\* the same selection
C29_ViewIndependent ==
    SameCallOtherView => done.after = donePrev.after

\* the same K was applied with the first page shown and then with another
\* page shown, and both calls left the same, non-empty selection
C29_Witness ==
    /\ SameCallOtherView
    /\ donePrev.view[1].first = 0
    /\ done.view[1].first > 0
    /\ done.view[1].artworks # donePrev.view[1].artworks
    /\ done.after = donePrev.after
    /\ done.after = FirstIds(done.k, done.tr)
    /\ done.after # {}

\* C30: the step that ends a bulk selection with K > 0, in success or on a
\* failed fetch, sets the offset first to 0, and starts the fetch of page 1
\* when the offset was another one; the clear path (K <= 0) leaves the
\* offset as it is
C30_OffsetReset ==
    [][/\ lastOp' \in {"bulkOk", "bulkFail"} =>
              /\ done'.k > 0
              /\ first' = 0
              /\ first # 0 => /\ nav' = nav (+) SetToBag({ApiPage(0)})
                              /\ loading'
       /\ lastOp' = "bulkClear" =>
              /\ done'.k <= 0
              /\ first' = first]_vars

\* a bulk selection started while the second page was shown has failed,
\* and the offset is back at 0 with the first page being fetched
C30_Witness ==
    /\ lastOp = "bulkFail"
    /\ first = 0
    /\ loading
    /\ BagToSet(nav) = {ApiPage(0)}
    /\ artworks # <<>>
    /\ artworks = PageData(2, remote)

\* a bulk selection of the batched kind that succeeded over a collection
\* that did not change while it ran
BatchedUnchanged(d) == d.outcome = "ok" /\ d.stable /\ d.k > 0

\* C31: a batched bulk selection that succeeds over an unchanged collection
\* leaves the set of identifiers that the sequential, one-page-at-a-time
\* bulk selection collects for the same K, totalRecords and collection,
\* also when totalRecords is not the size of the collection
C31_SequentialEqualsBatched ==
    BatchedUnchanged(done) =>
        done.after = Range(NewSelectedItems(done.k, done.tr, done.n))

\* a batched call of two batches left the K identifiers the sequential loop
\* collects over four pages
C31_Witness ==
    /\ lastOp = "bulkOk"
    /\ BatchedUnchanged(done)
    /\ Len(done.issued) = 2
    /\ Len(NewSelectedItems(done.k, done.tr, done.n)) = done.k
    /\ selectedIds = Range(NewSelectedItems(done.k, done.tr, done.n))

\* C32: a bulk selection with K > 0 started while totalRecords is 0 ends in
\* the step that starts it: no page fetch of a batch is issued, the busy
\* flag stays false and the selection is replaced by the empty set
C32_NothingToFetch ==
    [][(bulkSeq' # bulkSeq /\ totalRecords = 0 /\ TotalToSelect(tempRows) > 0) =>
          /\ lastOp' = "bulkOk"
          /\ done'.issued = <<>>
          /\ ops' = ops
          /\ orphans' = orphans
          /\ ~bulkSelectLoading'
          /\ selectedIds' = {}]_vars

\* a number was typed and rows were selected while the collection had
\* items; with totalRecords back at 0 the bulk selection requested nothing
\* and emptied the selection
C32_Witness ==
    /\ lastOp = "bulkOk"
    /\ done.tr = 0
    /\ done.k > 0
    /\ done.issued = <<>>
    /\ done.before # {}
    /\ selectedIds = {}
    /\ ops = {}

\* C33: in every state in which a navigation fetch is outstanding the
\* loading flag is true, also when several of them overlap
C33_LoadingWhileFetching ==
    nav # EmptyBag => loading

\* C34: in the array variants the selection never holds two entries with
\* the same identifier, whatever row toggles, page selection changes, bulk
\* selections and clears came before
C34_NoDuplicateEntries ==
    NoDuplicates(selectedArtworks)

\* C35: after Select Page every identifier of the loaded page is selected,
\* after Deselect Page none is; pressing the same button again on the same
\* page changes nothing; Deselect Page after Select Page on the same page
\* leaves the selection there was before the two, minus the page's
\* identifiers
C35_PageButtons ==
    /\ tg # <<>> =>
           LET h == tg[Len(tg)]
           IN  /\ h.op = "selectPage" => h.page \subseteq selectedIds
               /\ h.op = "deselectPage" => selectedIds \cap h.page = {}
    /\ (Len(tg) = 2 /\ tg[1].page = tg[2].page) =>
           /\ tg[1].op = tg[2].op => selectedIds = tg[2].before
           /\ (tg[1].op = "selectPage" /\ tg[2].op = "deselectPage") =>
                  selectedIds = tg[1].before \ tg[1].page

\* Select Page and then Deselect Page were pressed on a page none of whose
\* rows was selected, while identifiers of another page were: those are
\* what is left
C35_Witness ==
    /\ Len(tg) = 2
    /\ tg[1].op = "selectPage"
    /\ tg[2].op = "deselectPage"
    /\ tg[1].page = tg[2].page
    /\ tg[1].page # {}
    /\ tg[1].before # {}
    /\ tg[1].before \cap tg[1].page = {}
    /\ tg[2].before = tg[1].before \cup tg[1].page
    /\ selectedIds = tg[1].before

\* C36: the rows handed to the table as selected are exactly the rows of
\* the loaded page whose identifier is in the selection, each once and in
\* page order, and a row of the table is highlighted iff its identifier is
\* in the selection
C36_RenderedSelection ==
    LET rows == SelectedArtworksOnPage(artworks, selectedIds)
    IN  /\ Range(rows) = selectedIds \cap CurrentPageIds
        /\ Len(rows) = Cardinality(selectedIds \cap CurrentPageIds)
        /\ \A a, b \in 1..Len(rows) :
               a < b => \E r, q \in 1..Len(artworks) :
                            r < q /\ artworks[r] = rows[a] /\ artworks[q] = rows[b]
        /\ \A r \in 1..Len(artworks) :
               /\ RowClassName(artworks[r], selectedIds) = "p-highlight"
                      <=> artworks[r] \in selectedIds
               /\ RowClassName(artworks[r], selectedIds) = "p-highlight"
                      <=> artworks[r] \in Range(rows)

\* a page is shown with some of its rows selected and others not, while
\* identifiers of another page are selected too
C36_Witness ==
    /\ SelectedArtworksOnPage(artworks, selectedIds) # <<>>
    /\ Len(SelectedArtworksOnPage(artworks, selectedIds)) < Len(artworks)
    /\ selectedIds \ CurrentPageIds # {}
    /\ \E r \in 1..Len(artworks) : RowClassName(artworks[r], selectedIds) = ""

====
